---- MODULE Spec2Model ----
(***************************************************************************)
(* Model of src/index.tsx: the App component's state (innovations,        *)
(* loading, error, selectedInnovation), the fetchInnovations pipeline      *)
(* (one text call, a Promise.all fan-out of image calls, the merge), the   *)
(* regenerate button and the card / modal handlers.                        *)
(*                                                                         *)
(* One step of the model is one task of the browser's event loop: a user   *)
(* event handler, the mount effect, or the arrival of a network response   *)
(* together with every promise continuation it triggers.  React renders    *)
(* between tasks, so the states of the model are the states the view can   *)
(* observe.                                                                *)
(***************************************************************************)
EXTENDS Integers, Sequences, FiniteSets, TLC

\* ---------------------------------------------------------------- bounds
\* number of pipeline invocations explored (the mount plus regenerations)
MaxInv == 2
\* longest idea array enumerated exhaustively over ElementPool
MaxIdeas == 2

\* ------------------------------------------------------------- constants
\* the number of ideas the prompt asks the text model for
RequestedCount == 6
\* the fixed message set by the catch block
ErrorMessage == "Failed to fetch innovations from the future. Please try again."
\* the prefix of the data URI built by the mapper
DataUrlPrefix == "data:image/jpeg;base64,"
\* JavaScript null (error state) and undefined (a field an object lacks)
Null == "null"
Undefined == "undefined"

\* ------------------------------------------------- the external services
\* elements the text service may put into the JSON array
IdeaA == [kind |-> "object", title |-> "tA", description |-> "dA", image_prompt |-> "pA"]
IdeaB == [kind |-> "object", title |-> "tB", description |-> "dB", image_prompt |-> "pB"]
\* an object lacking the required field title
IdeaNoTitle == [kind |-> "object", title |-> Undefined, description |-> "dB", image_prompt |-> "pB"]
\* a JSON null in place of an object
ElemNull == [kind |-> "null", title |-> Undefined, description |-> Undefined, image_prompt |-> Undefined]

ElementPool == {IdeaA, IdeaB, IdeaNoTitle, ElemNull}

\* all sequences over S of length n
RECURSIVE SeqsOfLen(_, _)
SeqsOfLen(S, n) ==
    IF n = 0 THEN {<<>>}
    ELSE {Append(s, e) : s \in SeqsOfLen(S, n - 1), e \in S}

\* the array of 6 well-formed ideas the prompt asks for
RequestedArray == [i \in 1..RequestedCount |-> IF i % 2 = 1 THEN IdeaA ELSE IdeaB]

JsonArrays == UNION {SeqsOfLen(ElementPool, n) : n \in 0..MaxIdeas} \cup {RequestedArray}

\* the text of a response: not JSON at all, a JSON value that is no array,
\* or a JSON array
ResponseTexts ==
    {[json |-> FALSE, type |-> "none", elems |-> <<>>],
     [json |-> TRUE, type |-> "object", elems |-> <<>>]}
    \cup {[json |-> TRUE, type |-> "array", elems |-> a] : a \in JsonArrays}

\* causes of a failing call
Causes == {"config", "transport", "schema"}

\* outcomes of ai.models.generateContent: a rejection or a response text
TextOutcomes ==
    {[kind |-> "reject", cause |-> c, text |-> [json |-> FALSE, type |-> "none", elems |-> <<>>]] :
        c \in {"config", "transport"}}
    \cup {[kind |-> "text", cause |-> "none", text |-> t] : t \in ResponseTexts}

\* outcomes of ai.models.generateImages: a rejection, a response without
\* images, or a response with one image
ImageOutcomes == {"reject", "empty", "image"}

\* the bytes the image service generates for a prompt
ImageBytes(prompt) == "img:" \o prompt


\* ------------------------------------------------------- pure functions
\* JSON.parse(textResponse.text): throws on a text that is not JSON
JSONParse(text) ==
    IF text.json
    THEN [threw |-> FALSE, isArray |-> text.type = "array", elems |-> text.elems]
    ELSE [threw |-> TRUE, isArray |-> FALSE, elems |-> <<>>]

\* the value of an InnovationWithImage slot that holds nothing yet
NoItem == [title |-> Undefined, description |-> Undefined, imageUrl |-> Undefined]

\* the mapper up to its await: reading idea.image_prompt throws a TypeError
\* on null, otherwise the image request is sent and the promise is pending
MapperStart(idea) ==
    IF idea.kind = "null"
    THEN [status |-> "rejected", cause |-> "schema", value |-> NoItem]
    ELSE [status |-> "pending", cause |-> "none", value |-> NoItem]

\* MapperFinish with each image request's failure caught inside the mapper
MapperFinishSwallow(idea, outcome) ==
    [status |-> "fulfilled", cause |-> "none",
     value |-> [title |-> idea.title,
                description |-> idea.description,
                imageUrl |-> IF outcome = "image"
                             THEN DataUrlPrefix \o ImageBytes(idea.image_prompt)
                             ELSE Undefined]]

\* the mapper after its await: a rejected request rejects the promise, a
\* response without images throws on generatedImages[0].image, a response
\* with an image yields the item with the data URI
MapperFinish(idea, outcome) ==
    CASE outcome = "reject" ->
           [status |-> "rejected", cause |-> "transport", value |-> NoItem]
      [] outcome = "empty" ->
           [status |-> "rejected", cause |-> "schema", value |-> NoItem]
      [] OTHER ->
           [status |-> "fulfilled", cause |-> "none",
            value |-> [title |-> idea.title,
                       description |-> idea.description,
                       imageUrl |-> DataUrlPrefix \o ImageBytes(idea.image_prompt)]]

\* the state of the promise returned by Promise.all over the slots
PromiseAll(slots) ==
    IF \E i \in 1..Len(slots) : slots[i].status = "rejected" THEN "rejected"
    ELSE IF \A i \in 1..Len(slots) : slots[i].status = "fulfilled" THEN "fulfilled"
    ELSE "pending"

\* ResolvedValues with the slots read from the far end
ResolvedValuesReversed(slots) == [i \in 1..Len(slots) |-> slots[Len(slots) + 1 - i].value]

\* ResolvedValues with the last slot left out
ResolvedValuesTruncated(slots) ==
    [i \in 1..(IF Len(slots) = 0 THEN 0 ELSE Len(slots) - 1) |-> slots[i].value]

\* the array Promise.all fulfils with: the slots' values in index order
ResolvedValues(slots) == [i \in 1..Len(slots) |-> slots[i].value]

\* the reason Promise.all rejects with: that of the first rejected slot
RejectionCause(slots) ==
    LET i == CHOOSE k \in 1..Len(slots) :
                 /\ slots[k].status = "rejected"
                 /\ \A j \in 1..(k - 1) : slots[j].status # "rejected"
    IN slots[i].cause

\* the number of image requests still in flight
PendingCount(slots) == Cardinality({i \in 1..Len(slots) : slots[i].status = "pending"})

\* CatchError showing the caught error itself
CatchErrorRaw(cause) == cause

\* catch block: the error shown to the user
CatchError(cause) == ErrorMessage

\* FinallyLoading with the flag left set
FinallyLoadingStuck == TRUE

\* finally block: the value given to setLoading
FinallyLoading == FALSE

\* ------------------------------------------------------------------ state
VARIABLES
    innovations,          \* useState<InnovationWithImage[]>([])
    loading,              \* useState(true)
    error,                \* useState<string | null>(null)
    selectedInnovation,   \* useState<InnovationWithImage | null>(null): <<>> or <<item>>
    inv,                  \* the calls of fetchInnovations, by number
    started,              \* how many calls of fetchInnovations were made
    cause                 \* what the catch block of the latest call caught

vars == <<innovations, loading, error, selectedInnovation, inv, started, cause>>

Invocations == 1..MaxInv

\* a call of fetchInnovations that was not made yet
IdleInv == [phase |-> "idle", ideas |-> <<>>, slots |-> <<>>, late |-> 0]
\* a call suspended at the await of generateContent
TextInv == [phase |-> "text", ideas |-> <<>>, slots |-> <<>>, late |-> 0]
\* a call suspended at the await of Promise.all
ImagesInv(ideas, slots) == [phase |-> "images", ideas |-> ideas, slots |-> slots, late |-> 0]
\* a call that returned after setInnovations
LoadedInv == [phase |-> "loaded", ideas |-> <<>>, slots |-> <<>>, late |-> 0]
\* a call that returned after the catch block, with n image requests of its
\* own still in flight
FailedInv(n) == [phase |-> "failed", ideas |-> <<>>, slots |-> <<>>, late |-> n]

Unsettled(v) == inv[v].phase \in {"text", "images"}

Init ==
    /\ innovations = <<>>
    /\ loading = TRUE
    /\ error = Null
    /\ selectedInnovation = <<>>
    /\ inv = [v \in Invocations |-> IdleInv]
    /\ started = 0
    /\ cause = "none"


\* ------------------------------------------------- the pipeline's steps
\* the catch and finally blocks of call v, run for a failure of cause c
\* while n image requests of the call are still in flight
Fail(v, c, n) ==
    /\ error' = CatchError(c)
    /\ loading' = FinallyLoading
    /\ inv' = [inv EXCEPT ![v] = FailedInv(n)]
    /\ cause' = c
    /\ UNCHANGED innovations

\* setInnovations(innovationsWithImages) and the finally block of call v
Succeed(v, items) ==
    /\ innovations' = items
    /\ loading' = FinallyLoading
    /\ inv' = [inv EXCEPT ![v] = LoadedInv]
    /\ UNCHANGED <<error, cause>>

\* call v at its await of Promise.all, the mappers' promises being slots
Join(v, ideas, slots) ==
    CASE PromiseAll(slots) = "rejected" ->
           Fail(v, RejectionCause(slots), PendingCount(slots))
      [] PromiseAll(slots) = "fulfilled" ->
           Succeed(v, ResolvedValues(slots))
      [] OTHER ->
           /\ inv' = [inv EXCEPT ![v] = ImagesInv(ideas, slots)]
           /\ UNCHANGED <<innovations, loading, error, cause>>

\* whether the GoogleGenAI constructor accepts the configured API key or
\* throws on it
CtorOutcomes == {"ok", "throws"}

\* fetchInnovations up to its first await, as call number v
FetchInnovations(v, ctor) ==
    /\ started' = v
    /\ IF ctor = "throws"
       THEN /\ error' = CatchError("config")
            /\ loading' = FinallyLoading
            /\ inv' = [inv EXCEPT ![v] = FailedInv(0)]
            /\ cause' = "config"
       ELSE /\ loading' = TRUE
            /\ error' = Null
            /\ inv' = [inv EXCEPT ![v] = TextInv]
            /\ cause' = "none"

\* the mount effect
Mount ==
    /\ started = 0
    /\ \E ctor \in CtorOutcomes : FetchInnovations(1, ctor)
    /\ UNCHANGED <<innovations, selectedInnovation>>

\* RegenerateEnabled without the disabled attribute
RegenerateAlwaysEnabled == TRUE

\* the regenerate button reacts to a click: disabled={loading}
RegenerateEnabled == ~loading

\* ClearedInnovations with the old gallery kept
KeptInnovations == innovations

\* the argument of setInnovations in handleRegenerate
ClearedInnovations == <<>>

\* a click on the regenerate button
HandleRegenerate ==
    /\ started >= 1
    /\ started < MaxInv
    /\ RegenerateEnabled
    /\ innovations' = ClearedInnovations
    /\ \E ctor \in CtorOutcomes : FetchInnovations(started + 1, ctor)
    /\ UNCHANGED selectedInnovation

\* generateContent of call v settles with outcome o; the call runs on to
\* its next await or to its end
TextDone(v, o) ==
    /\ inv[v].phase = "text"
    /\ LET parsed == JSONParse(o.text)
       IN IF o.kind = "reject" THEN Fail(v, o.cause, 0)
          ELSE IF parsed.threw \/ ~parsed.isArray THEN Fail(v, "schema", 0)
          ELSE Join(v, parsed.elems,
                    [i \in 1..Len(parsed.elems) |-> MapperStart(parsed.elems[i])])
    /\ UNCHANGED <<selectedInnovation, started>>

\* generateImages for idea i of call v settles with outcome o while the
\* call awaits Promise.all
ImageDone(v, i, o) ==
    /\ inv[v].phase = "images"
    /\ i \in 1..Len(inv[v].slots)
    /\ inv[v].slots[i].status = "pending"
    /\ Join(v, inv[v].ideas,
            [inv[v].slots EXCEPT ![i] = MapperFinish(inv[v].ideas[i], o)])
    /\ UNCHANGED <<selectedInnovation, started>>

\* generateImages of call v settles with outcome o after Promise.all has
\* rejected: the mapper's promise settles and nobody reads it
LateImageDone(v, o) ==
    /\ inv[v].phase = "failed"
    /\ inv[v].late > 0
    /\ inv' = [inv EXCEPT ![v].late = @ - 1]
    /\ UNCHANGED <<innovations, loading, error, selectedInnovation, started, cause>>

\* ------------------------------------------------------ cards and modal
\* the grid of cards is rendered
CardsRendered == ~loading /\ error = Null

\* the modal is rendered
ModalRendered == selectedInnovation # <<>>

handleOpenModal(innovation) == <<innovation>>

handleCloseModal == <<>>

\* events a card receives: a click or a keydown
CardEvents == {"click", "Enter", " ", "Tab", "Escape"}

\* the card's onClick and onKeyDown call onCardClick
CardActivates(ev) == ev \in {"click", "Enter", " "}

\* the keydown listener the modal puts on window calls onClose
KeyCloses(key) == key = "Escape"

\* card i receives event ev; a keydown then bubbles to window
CardEvent(i, ev) ==
    /\ CardsRendered
    /\ i \in 1..Len(innovations)
    /\ selectedInnovation' =
           IF CardActivates(ev) THEN handleOpenModal(innovations[i])
           ELSE IF ModalRendered /\ ev # "click" /\ KeyCloses(ev) THEN handleCloseModal
           ELSE selectedInnovation
    /\ UNCHANGED <<innovations, loading, error, inv, started, cause>>

\* keys pressed while the focus is on no card
Keys == {"Escape", "Enter", "a"}

\* a keydown reaches window while the modal is mounted
WindowKeyDown(key) ==
    /\ ModalRendered
    /\ selectedInnovation' = IF KeyCloses(key) THEN handleCloseModal ELSE selectedInnovation
    /\ UNCHANGED <<innovations, loading, error, inv, started, cause>>

\* where a click on the modal lands
ClickTargets == {"overlay", "content", "close"}

\* ClickCloses without the content's stopPropagation
ClickClosesAnywhere(target) == TRUE

\* the click reaches an onClick={onClose}: the overlay's own, or the close
\* button's; the content's handler stops the propagation to the overlay
ClickCloses(target) == target \in {"overlay", "close"}

ModalClick(target) ==
    /\ ModalRendered
    /\ selectedInnovation' = IF ClickCloses(target) THEN handleCloseModal ELSE selectedInnovation
    /\ UNCHANGED <<innovations, loading, error, inv, started, cause>>

\* ---------------------------------------------------------- specification
Next ==
    \/ Mount
    \/ HandleRegenerate
    \/ \E v \in Invocations, o \in TextOutcomes : TextDone(v, o)
    \/ \E v \in Invocations, i \in 1..RequestedCount, o \in ImageOutcomes : ImageDone(v, i, o)
    \/ \E v \in Invocations, o \in ImageOutcomes : LateImageDone(v, o)
    \/ \E i \in 1..RequestedCount, ev \in CardEvents : CardEvent(i, ev)
    \/ \E key \in Keys : WindowKeyDown(key)
    \/ \E target \in ClickTargets : ModalClick(target)

Spec == Init /\ [][Next]_vars

\* every network call eventually completes
NetworkFairness ==
    /\ \A v \in Invocations : WF_vars(\E o \in TextOutcomes : TextDone(v, o))
    /\ \A v \in Invocations, i \in 1..RequestedCount :
           WF_vars(\E o \in ImageOutcomes : ImageDone(v, i, o))

FairSpec == Spec /\ NetworkFairness


\* ------------------------------------------------------------ properties
\* the failing outcomes of an image request
FailingImageOutcomes == {"reject", "empty"}

\* whether generateContent outcome o is a failure of the text step: the
\* call rejects, its text is not JSON, or the JSON is no array
TextStepFails(o) == o.kind = "reject" \/ ~o.text.json \/ o.text.type # "array"

\* the item the pipeline is to build from an idea
ExpectedItem(idea) ==
    [title |-> idea.title,
     description |-> idea.description,
     imageUrl |-> "data:image/jpeg;base64," \o ImageBytes(idea.image_prompt)]

\* an element of the idea array is an object without one of the required
\* fields
LacksField(ideas) ==
    \E i \in 1..Len(ideas) :
        /\ ideas[i].kind = "object"
        /\ \/ ideas[i].title = Undefined
           \/ ideas[i].description = Undefined
           \/ ideas[i].image_prompt = Undefined

\* C1: in every observable state, if items is non-empty then isLoading is
\* false and error is none.
C1_ItemsOnlyWhenLoaded ==
    innovations # <<>> => (~loading /\ error = Null)

\* C1 witness: a gallery shown after at least one regeneration
C1_Witness ==
    /\ innovations # <<>>
    /\ started >= 2
    /\ inv[started].phase = "loaded"

\* C2: a failing image request ends its invocation in the failed state
\* (error set, items empty) whatever the other requests did; an invocation
\* that writes items writes no fewer entries than it has ideas; an image
\* request completing after the failure changes neither items nor error.
C2_FailFast ==
    [][\A v \in Invocations :
        /\ \A i \in 1..RequestedCount, o \in FailingImageOutcomes :
               ImageDone(v, i, o) =>
                   /\ inv'[v].phase = "failed"
                   /\ error' = ErrorMessage
                   /\ innovations' = <<>>
        /\ (inv[v].phase = "images" /\ innovations' # innovations) =>
               Len(innovations') >= Len(inv[v].ideas)
        /\ (inv[v].phase = "failed" /\ inv'[v].late < inv[v].late) =>
               (innovations' = innovations /\ error' = error)
      ]_vars

\* C2 witness: an image request failed while others of the same invocation
\* were in flight, and the invocation is in the failed state
C2_Witness ==
    \E v \in Invocations :
        /\ inv[v].phase = "failed"
        /\ inv[v].late >= 2
        /\ cause = "transport"
        /\ error = ErrorMessage
        /\ innovations = <<>>

\* C3: a successful invocation leaves in items one entry per idea, entry i
\* carrying the title and description of idea i and the image generated
\* from idea i's image_prompt, whatever the completion order of the image
\* requests.
C3_MergeKeepsOrder ==
    [][\A v \in Invocations :
        (inv[v].phase = "images" /\ inv'[v].phase = "loaded") =>
            /\ Len(innovations') = Len(inv[v].ideas)
            /\ \A i \in 1..Len(inv[v].ideas) :
                   innovations'[i] = ExpectedItem(inv[v].ideas[i])
      ]_vars

\* C3 witness: a gallery of several entries that differ from one another
C3_Witness ==
    /\ started >= 1
    /\ inv[started].phase = "loaded"
    /\ Len(innovations) >= 2
    /\ innovations[1] # innovations[2]
    /\ innovations[1].title = "tB"

\* C5: a failing text or image call, whatever its cause, settles the
\* invocation in the failed state: isLoading false, items empty, error the
\* fixed string.
C5_FailedState ==
    /\ [](\A v \in Invocations :
            (v = started /\ inv[v].phase = "failed") =>
                (~loading /\ innovations = <<>> /\ error = ErrorMessage))
    /\ [][\A v \in Invocations :
            /\ \A o \in TextOutcomes :
                   (TextDone(v, o) /\ TextStepFails(o)) => inv'[v].phase = "failed"
            /\ \A i \in 1..RequestedCount, o \in FailingImageOutcomes :
                   ImageDone(v, i, o) => inv'[v].phase = "failed"
         ]_vars

\* C5 witness: a regeneration that failed on a schema error
C5_Witness ==
    /\ started >= 2
    /\ inv[started].phase = "failed"
    /\ cause = "schema"
    /\ error = ErrorMessage

\* C6: an invocation whose network calls all complete sets isLoading to
\* false; isLoading is false whenever the latest invocation has settled,
\* and once false it becomes true only by the start of a regeneration.
C6_LoadingReset ==
    /\ \A v \in Invocations : Unsettled(v) ~> (~Unsettled(v) /\ ~loading)
    /\ [](started >= 1 /\ ~Unsettled(started) => ~loading)
    /\ [][(~loading /\ loading') => started' = started + 1]_vars

\* C6 witness: a second invocation has settled and isLoading is false
C6_Witness ==
    /\ started >= 2
    /\ inv[started].phase \in {"loaded", "failed"}
    /\ ~loading

\* C7: a text response that is not JSON, or a JSON array with an element
\* lacking a required field, makes the invocation fail: error is set, items
\* stays empty, and no item built from such an idea is ever stored.
C7_MalformedResponseFails ==
    /\ [][\A v \in Invocations :
            /\ \A o \in TextOutcomes :
                   (TextDone(v, o) /\ o.kind = "text" /\ ~o.text.json) =>
                       (inv'[v].phase = "failed" /\ error' = ErrorMessage
                                                 /\ innovations' = <<>>)
            /\ (inv[v].phase = "images" /\ LacksField(inv[v].ideas)) =>
                   (inv'[v].phase # "loaded" /\ innovations' = <<>>)
         ]_vars
    /\ [](\A i \in 1..Len(innovations) :
            innovations[i].title # Undefined /\ innovations[i].description # Undefined)

\* C8 as stated: every loaded state holds exactly 6 items, with error none.
C8_AlwaysSix ==
    (started >= 1 /\ inv[started].phase = "loaded") =>
        (Len(innovations) = RequestedCount /\ error = Null)

\* C8 amended: a successful invocation leaves in items as many entries as
\* the text service returned ideas, with error none; that is 6 entries when
\* the service returned 6 ideas.
C8_CountFollowsService ==
    [][\A v \in Invocations :
        /\ \A o \in TextOutcomes :
               (TextDone(v, o) /\ inv'[v].phase = "loaded") =>
                   (Len(innovations') = Len(o.text.elems) /\ error' = Null)
        /\ (inv[v].phase = "images" /\ inv'[v].phase = "loaded") =>
               /\ Len(innovations') = Len(inv[v].ideas)
               /\ error' = Null
               /\ Len(inv[v].ideas) = RequestedCount => Len(innovations') = RequestedCount
      ]_vars

\* C8 witness: the service returned the 6 ideas asked for and all 6 are shown
C8_Witness ==
    /\ started >= 1
    /\ inv[started].phase = "loaded"
    /\ Len(innovations) = RequestedCount
    /\ error = Null

\* C9: a regeneration starts only while isLoading is false, isLoading is
\* true from mount and from each regeneration until the invocation settles,
\* and at most one invocation is unsettled at any time.
C9_SingleFlight ==
    /\ [](Cardinality({v \in Invocations : Unsettled(v)}) <= 1)
    /\ []((started = 0 \/ \E v \in Invocations : Unsettled(v)) => loading)
    /\ [][(started >= 1 /\ started' # started) => ~loading]_vars

\* C9 witness: a regeneration is in flight, every earlier invocation settled
C9_Witness ==
    /\ started >= 2
    /\ Unsettled(started)
    /\ inv[started].phase = "images"

\* C10: activating a card (click, Enter, Space) sets selected to that card's
\* item; an overlay click, a close-button click and Escape set selected to
\* none; a click inside the modal content leaves selected alone; none of
\* them changes items, isLoading or error.
C10_SelectionHandlers ==
    [][/\ \A i \in 1..Len(innovations), ev \in {"click", "Enter", " "} :
              CardEvent(i, ev) => selectedInnovation' = <<innovations[i]>>
       /\ \A target \in {"overlay", "close"} :
              ModalClick(target) => selectedInnovation' = <<>>
       /\ WindowKeyDown("Escape") => selectedInnovation' = <<>>
       /\ ModalClick("content") => selectedInnovation' = selectedInnovation
       /\ (\/ \E i \in 1..RequestedCount, ev \in CardEvents : CardEvent(i, ev)
           \/ \E key \in Keys : WindowKeyDown(key)
           \/ \E target \in ClickTargets : ModalClick(target)) =>
              (innovations' = innovations /\ loading' = loading /\ error' = error)
      ]_vars

\* C10 witness: the modal shows the second card of the gallery
C10_Witness ==
    /\ CardsRendered
    /\ Len(innovations) >= 2
    /\ innovations[1] # innovations[2]
    /\ selectedInnovation = <<innovations[2]>>

====
